---- MODULE Spec2Model ----
(***************************************************************************)
(* Placement and layout core of japanese-3d-text: the bounding box of a    *)
(* group of meshes (calculateGroupBoundingBox), the exclusion zone derived *)
(* from it (createZoneFromBox, createExclusionZone, isOutsideExclusionZone)*)
(* and the rejection sampling that places the donuts (createDonuts).       *)
(*                                                                         *)
(* Numbers are exact: a coordinate is an integer, +Infinity and -Infinity  *)
(* are the sentinels Inf and -Inf, and arithmetic on them absorbs as IEEE  *)
(* arithmetic does.  Three specifications share the variables:             *)
(*   Spec        the scene graph and calculateGroupBoundingBox             *)
(*   SpecZone    the zone constructors and the containment test            *)
(*   SpecDonuts  createDonuts, one step per loop test or loop body         *)
(***************************************************************************)
EXTENDS Integers, Sequences, FiniteSets

VARIABLES
    objs,       \* the scene graph under the group: objs[1] is the group
    ret,        \* what calculateGroupBoundingBox last returned, until the graph changes
    zbox,       \* SpecZone: the box given to the zone constructors
    zmargin,    \* SpecZone: the margin given to them
    zone,       \* SpecZone: the zone last built
    probe,      \* SpecZone: the position last tested and the test's answer
    dn,         \* SpecDonuts: the activation record of createDonuts and its scene
    app,        \* SpecApp: the component, its useThreeScene instance and the browser
    date        \* SpecDate: the clock and the last call of getCurrentDateInJapanese

boxVars == <<objs, ret>>
zoneVars == <<zbox, zmargin, zone, probe>>
vars == <<objs, ret, zbox, zmargin, zone, probe, dn, app, date>>

----------------------------------------------------------------------------
(* Bounds of the model *)

MaxNodes == 3       \* objects in the graph, the group included
MaxMargin == 2      \* the margins tried are 0..MaxMargin
MaxDonuts == 2      \* createDonuts is called with nbDonuts in 0..MaxDonuts
MaxFrames == 3      \* animation frames drawn by one component
RandDen == 4        \* Math.random() returns a multiple of 1/RandDen

----------------------------------------------------------------------------
(* Numbers, vectors, boxes (THREE.Vector3, THREE.Box3) *)

Inf == 1000000

Axes == 1..3

Min2(a, b) == IF a <= b THEN a ELSE b
Max2(a, b) == IF a >= b THEN a ELSE b

SetMin(S) == CHOOSE m \in S : \A x \in S : m <= x
SetMax(S) == CHOOSE m \in S : \A x \in S : m >= x

\* new THREE.Box3(): min = +Infinity, max = -Infinity on every axis
Box3Everything == [min |-> <<-Inf, -Inf, -Inf>>, max |-> <<Inf, Inf, Inf>>]
Box3 == [min |-> <<Inf, Inf, Inf>>, max |-> <<-Inf, -Inf, -Inf>>]

\* Box3.isEmpty
isEmpty(b) == \E a \in Axes : b.max[a] < b.min[a]

\* Box3.union: the component-wise min of the mins and max of the maxes
unionOverwrite(b, c) == c
union(b, c) ==
    [min |-> <<Min2(b.min[1], c.min[1]), Min2(b.min[2], c.min[2]), Min2(b.min[3], c.min[3])>>,
     max |-> <<Max2(b.max[1], c.max[1]), Max2(b.max[2], c.max[2]), Max2(b.max[3], c.max[3])>>]

----------------------------------------------------------------------------
(* Affine transforms (THREE.Matrix4 restricted to its affine part):        *)
(* m is the 3x3 linear part by rows, t the translation.                    *)

Identity == [m |-> << <<1, 0, 0>>, <<0, 1, 0>>, <<0, 0, 1>> >>, t |-> <<0, 0, 0>>]

\* Vector3.applyMatrix4
Dot(r, v) == r[1] * v[1] + r[2] * v[2] + r[3] * v[3]
applyToPoint(M, v) ==
    <<Dot(M.m[1], v) + M.t[1], Dot(M.m[2], v) + M.t[2], Dot(M.m[3], v) + M.t[3]>>

\* Matrix4.multiplyMatrices(A, B): first B, then A
Column(m, j) == <<m[1][j], m[2][j], m[3][j]>>
RowTimes(r, m) == <<Dot(r, Column(m, 1)), Dot(r, Column(m, 2)), Dot(r, Column(m, 3))>>
multiplyMatrices(A, B) ==
    [m |-> <<RowTimes(A.m[1], B.m), RowTimes(A.m[2], B.m), RowTimes(A.m[3], B.m)>>,
     t |-> applyToPoint(A, B.t)]

\* The rotations the model uses, as rotation matrices
RotNone == << <<1, 0, 0>>, <<0, 1, 0>>, <<0, 0, 1>> >>
RotZ90  == << <<0, -1, 0>>, <<1, 0, 0>>, <<0, 0, 1>> >>
RotX90  == << <<1, 0, 0>>, <<0, 0, -1>>, <<0, 1, 0>> >>

\* Matrix4.compose(position, quaternion, scale): scale, then rotate, then translate
ScaleRow(r, scale) == <<r[1] * scale[1], r[2] * scale[2], r[3] * scale[3]>>
compose(position, rotation, scale) ==
    [m |-> <<ScaleRow(rotation[1], scale), ScaleRow(rotation[2], scale),
             ScaleRow(rotation[3], scale)>>,
     t |-> position]

\* Object3D.updateMatrix: the local matrix of an object (matrixAutoUpdate is on)
matrix(o) == compose(o.position, o.rotation, o.scale)

----------------------------------------------------------------------------
(* Geometry: its vertices, and the cached local bounding box (null until   *)
(* computeBoundingBox has run).                                            *)

Null == [null |-> TRUE]
NoGeometry == [none |-> TRUE]

\* BufferGeometry.computeBoundingBox: the min and max over the vertices,
\* the empty box for a geometry without vertices
Coord(P, a) == {p[a] : p \in P}
computeBoundingBox(g) ==
    IF g.vertices = {} THEN Box3
    ELSE [min |-> <<SetMin(Coord(g.vertices, 1)), SetMin(Coord(g.vertices, 2)),
                    SetMin(Coord(g.vertices, 3))>>,
          max |-> <<SetMax(Coord(g.vertices, 1)), SetMax(Coord(g.vertices, 2)),
                    SetMax(Coord(g.vertices, 3))>>]

\* The eight corners of a box
Corners(b) ==
    {<<x, y, z>> : x \in {b.min[1], b.max[1]}, y \in {b.min[2], b.max[2]},
                   z \in {b.min[3], b.max[3]}}

\* Box3.setFromPoints
setFromPoints(P) ==
    [min |-> <<SetMin(Coord(P, 1)), SetMin(Coord(P, 2)), SetMin(Coord(P, 3))>>,
     max |-> <<SetMax(Coord(P, 1)), SetMax(Coord(P, 2)), SetMax(Coord(P, 3))>>]

\* Box3.applyMatrix4: an empty box is returned as it is, otherwise the box
\* of the eight transformed corners
applyMatrix4Extremes(b, M) ==
    IF isEmpty(b) THEN b
    ELSE [min |-> applyToPoint(M, b.min), max |-> applyToPoint(M, b.max)]
applyMatrix4(b, M) ==
    IF isEmpty(b) THEN b
    ELSE setFromPoints({applyToPoint(M, c) : c \in Corners(b)})

----------------------------------------------------------------------------
(* The scene graph *)

\* new THREE.Group(): no parent, no children, the identity pose
NewGroup ==
    [isMesh |-> FALSE, geometry |-> NoGeometry, parent |-> 0, children |-> <<>>,
     position |-> <<0, 0, 0>>, rotation |-> RotNone, scale |-> <<1, 1, 1>>,
     matrixWorld |-> Identity]

\* The vertex sets of the geometries the model builds
VerticesA == {<<-1, -1, 0>>, <<2, 1, 1>>, <<0, 3, -1>>}
VerticesB == {<<0, 0, 0>>, <<1, 2, 3>>}

\* What can be added under the group: a plain group, a mesh whose geometry
\* has no cached box yet, a mesh whose box was computed at creation (as
\* createTextMesh does), a mesh whose geometry has no vertices, and a mesh
\* without geometry
Templates ==
    { [isMesh |-> FALSE, geometry |-> NoGeometry],
      [isMesh |-> TRUE, geometry |-> [vertices |-> VerticesA, boundingBox |-> Null]],
      [isMesh |-> TRUE,
       geometry |-> [vertices |-> VerticesB,
                     boundingBox |-> computeBoundingBox([vertices |-> VerticesB])]],
      [isMesh |-> TRUE, geometry |-> [vertices |-> {}, boundingBox |-> Null]],
      [isMesh |-> TRUE, geometry |-> NoGeometry] }

\* The pose an added object is created with: translated, turned a quarter
\* about z, mirrored along x and stretched along y
Poses ==
    { [position |-> <<1, -4, 0>>, rotation |-> RotZ90, scale |-> <<-1, 2, 1>>] }

\* The poses of the group: at rest, and moved by the floating animation

GroupPoses ==
    { [position |-> <<0, 0, 0>>, rotation |-> RotNone, scale |-> <<1, 1, 1>>],
      [position |-> <<1, 0, -1>>, rotation |-> RotX90, scale |-> <<1, 1, 1>>] }

\* Object3D.updateMatrixWorld(true) on object i: its world matrix from its
\* parent's stored world matrix and its own local matrix, then its children
worldMatrixLocal(os, o) == matrix(o)
worldMatrix(os, o) ==
    IF o.parent = 0 THEN matrix(o)
    ELSE multiplyMatrices(os[o.parent].matrixWorld, matrix(o))

RECURSIVE updateMatrixWorld(_, _), updateChildren(_, _, _)
updateMatrixWorld(os, i) ==
    updateChildren([os EXCEPT ![i].matrixWorld = worldMatrix(os, os[i])], os[i].children, 1)
updateChildren(os, cs, k) ==
    IF k > Len(cs) THEN os
    ELSE updateChildren(updateMatrixWorld(os, cs[k]), cs, k + 1)

\* processObject of calculateGroupBoundingBox: st is the graph (for the
\* cached boxes) and the running box
RECURSIVE processObject(_, _), processChildren(_, _, _)
processObject(st, i) ==
    LET o == st.os[i]
        hit == o.isMesh /\ o.geometry # NoGeometry
        os1 == IF hit /\ o.geometry.boundingBox = Null
               THEN [st.os EXCEPT ![i].geometry.boundingBox = computeBoundingBox(o.geometry)]
               ELSE st.os
        box1 == IF hit
                THEN union(st.box, applyMatrix4(os1[i].geometry.boundingBox, o.matrixWorld))
                ELSE st.box
    IN processChildren([os |-> os1, box |-> box1], o.children, 1)
processChildren(st, cs, k) ==
    IF k > Len(cs) THEN st
    ELSE processChildren(processObject(st, cs[k]), cs, k + 1)

\* calculateGroupBoundingBox(group, forceUpdate) on the graph os whose group
\* is object 1: the graph after the call and the box returned
ZeroBox == [min |-> <<0, 0, 0>>, max |-> <<0, 0, 0>>]
NewBox3 == Box3
calculateGroupBoundingBoxRefreshing(os, forceUpdate) ==
    IF Len(os[1].children) = 0 THEN [os |-> os, box |-> NewBox3]
    ELSE processObject([os |-> updateMatrixWorld(os, 1), box |-> NewBox3], 1)
calculateGroupBoundingBox(os, forceUpdate) ==
    IF Len(os[1].children) = 0 THEN [os |-> os, box |-> NewBox3]
    ELSE LET os1 == IF forceUpdate THEN updateMatrixWorld(os, 1) ELSE os
         IN processObject([os |-> os1, box |-> NewBox3], 1)

NoReturn == [called |-> FALSE]

\* createDonuts has not been called
NoCall == [pc |-> "none"]

\* No component has been set up
NoApp == [stage |-> "none"]

\* getCurrentDateInJapanese is not part of the run
NoDate == [called |-> FALSE]

----------------------------------------------------------------------------
(* Spec: the scene graph and calculateGroupBoundingBox *)

OtherInit ==
    /\ zbox = Box3
    /\ zmargin = 0
    /\ zone = Null
    /\ probe = Null
    /\ dn = NoCall
    /\ app = NoApp
    /\ date = NoDate

BoxInit ==
    /\ objs = <<NewGroup>>
    /\ ret = NoReturn
    /\ OtherInit

\* parent.add(child) of a newly created object: createTextMesh sets the
\* position before the mesh is added; the world matrix is not yet computed
Add(p, tmpl, pose) ==
    /\ Len(objs) < MaxNodes
    /\ LET id == Len(objs) + 1
           o == [isMesh |-> tmpl.isMesh, geometry |-> tmpl.geometry,
                 parent |-> p, children |-> <<>>,
                 position |-> pose.position, rotation |-> pose.rotation,
                 scale |-> pose.scale, matrixWorld |-> Identity]
       IN objs' = Append([objs EXCEPT ![p].children = Append(@, id)], o)
    /\ ret' = NoReturn
    /\ UNCHANGED <<zoneVars, dn, app, date>>

\* animateFloatingText: the group's rotation and position are set; no
\* world matrix is recomputed
SetGroupPose(pose) ==
    /\ objs' = [objs EXCEPT ![1].position = pose.position, ![1].rotation = pose.rotation]
    /\ ret' = NoReturn
    /\ UNCHANGED <<zoneVars, dn, app, date>>

\* renderer.render(scene, camera): the scene's world matrices are refreshed
Render ==
    /\ objs' = updateMatrixWorld(objs, 1)
    /\ ret' = NoReturn
    /\ UNCHANGED <<zoneVars, dn, app, date>>

\* A call of calculateGroupBoundingBox(group, forceUpdate)
Calculate(forceUpdate) ==
    /\ LET r == calculateGroupBoundingBox(objs, forceUpdate)
       IN /\ objs' = r.os
          /\ ret' = [called |-> TRUE, forceUpdate |-> forceUpdate, box |-> r.box]
    /\ UNCHANGED <<zoneVars, dn, app, date>>

BoxNext ==
    \/ \E p \in 1..Len(objs), tmpl \in Templates, pose \in Poses : Add(p, tmpl, pose)
    \/ \E pose \in GroupPoses : SetGroupPose(pose)
    \/ Render
    \/ \E f \in BOOLEAN : Calculate(f)

Spec == BoxInit /\ [][BoxNext]_vars

----------------------------------------------------------------------------
(* What the claims about calculateGroupBoundingBox speak of.  These are    *)
(* stated from the graph itself, not from the traversal: the world         *)
(* transform of an object is the composition of the local matrices on its  *)
(* path from the group, whatever world matrices are stored.                *)

RECURSIVE TrueWorld(_, _)
TrueWorld(os, i) ==
    IF os[i].parent = 0 THEN matrix(os[i])
    ELSE multiplyMatrices(TrueWorld(os, os[i].parent), matrix(os[i]))

\* Every stored world matrix is the composition of the local matrices
WorldCurrent == \A i \in 1..Len(objs) : objs[i].matrixWorld = TrueWorld(objs, i)

\* The descendants that are meshes, and those among them carrying a geometry
Meshes == {i \in 1..Len(objs) : objs[i].isMesh}
MeshNodes == {i \in Meshes : objs[i].geometry # NoGeometry}
Solid == {i \in MeshNodes : objs[i].geometry.vertices # {}}

\* The corners of a mesh's local box and its vertices, moved by transform M
CornersBy(i, M) ==
    {applyToPoint(M, c) : c \in Corners(computeBoundingBox(objs[i].geometry))}
VerticesBy(i, M) ==
    {applyToPoint(M, v) : v \in objs[i].geometry.vertices}

\* The box of a mesh moved by M: the extremes of its moved local box (the
\* empty box when the geometry has no vertices)
MeshMin(i, M, a) == IF i \in Solid THEN SetMin(Coord(CornersBy(i, M), a)) ELSE Inf
MeshMax(i, M, a) == IF i \in Solid THEN SetMax(Coord(CornersBy(i, M), a)) ELSE -Inf

\* The world-space box of a mesh, by the world matrix the mesh stores and by
\* the composition of the local matrices
StoredMin(i, a) == MeshMin(i, objs[i].matrixWorld, a)
StoredMax(i, a) == MeshMax(i, objs[i].matrixWorld, a)
TrueMin(i, a) == MeshMin(i, TrueWorld(objs, i), a)
TrueMax(i, a) == MeshMax(i, TrueWorld(objs, i), a)

\* The call measured the graph as it is: it refreshed the world matrices, or
\* they were already propagated
Measured == ret.called /\ (ret.forceUpdate \/ WorldCurrent)

\* C1: the box returned by calculateGroupBoundingBox contains, on each axis,
\* the world-space box of every descendant mesh at any depth: result.min <=
\* the mesh's transformed min, result.max >= its transformed max.  The mesh's
\* world transform is the world matrix it stores; when the call refreshed the
\* world matrices, or they were current, that is the composition of the local
\* matrices, and no transformed vertex lies outside the box.
C1_BoxContainsEveryMesh ==
    ret.called =>
        \A i \in MeshNodes : \A a \in Axes :
            /\ ret.box.min[a] <= StoredMin(i, a)
            /\ ret.box.max[a] >= StoredMax(i, a)
            /\ Measured =>
                /\ ret.box.min[a] <= TrueMin(i, a)
                /\ ret.box.max[a] >= TrueMax(i, a)
                /\ \A p \in VerticesBy(i, TrueWorld(objs, i)) :
                      ret.box.min[a] <= p[a] /\ p[a] <= ret.box.max[a]

\* A forced measurement of a moved group holding a mesh nested under another
\* object, beside a second mesh
C1_Witness ==
    /\ ret.called /\ ret.forceUpdate
    /\ objs[1].rotation # RotNone
    /\ Cardinality(Solid) >= 2
    /\ \E i \in Solid : objs[i].parent # 1

\* C2: the box returned is the smallest enclosing one: on each axis its min is
\* the minimum and its max the maximum over the world-space boxes of all
\* mesh-bearing descendants.
C2_BoxIsSmallest ==
    (ret.called /\ MeshNodes # {}) =>
        \A a \in Axes :
            /\ ret.box.min[a] = SetMin({StoredMin(i, a) : i \in MeshNodes})
            /\ ret.box.max[a] = SetMax({StoredMax(i, a) : i \in MeshNodes})
            /\ Measured =>
                /\ ret.box.min[a] = SetMin({TrueMin(i, a) : i \in MeshNodes})
                /\ ret.box.max[a] = SetMax({TrueMax(i, a) : i \in MeshNodes})

\* An unforced measurement, after a render, of two meshes one under the other
C2_Witness ==
    /\ ret.called /\ ~ret.forceUpdate /\ WorldCurrent
    /\ \E i, j \in Solid : objs[j].parent = i
    /\ \A a \in Axes : ret.box.min[a] < ret.box.max[a]

\* C3: with no mesh among the descendants (no children at all, or children of
\* which none at any depth is a mesh) the call returns the empty box, min > max
\* on every axis.
C3_EmptyGroupGivesEmptyBox ==
    (ret.called /\ Meshes = {}) =>
        \A a \in Axes : ret.box.min[a] > ret.box.max[a]

\* A measured group whose children, one nested under the other, are not meshes
C3_Witness ==
    /\ ret.called
    /\ Meshes = {}
    /\ \E i \in 1..Len(objs) : objs[i].parent > 1

\* Object i of graph ns is object i of graph os in all but its world matrix
\* and the cached local box of its geometry
SameButWorldAndCache(os, ns, i) ==
    /\ ns[i].isMesh = os[i].isMesh
    /\ ns[i].parent = os[i].parent
    /\ ns[i].children = os[i].children
    /\ ns[i].position = os[i].position
    /\ ns[i].rotation = os[i].rotation
    /\ ns[i].scale = os[i].scale
    /\ (os[i].geometry = NoGeometry) = (ns[i].geometry = NoGeometry)
    /\ os[i].geometry # NoGeometry => ns[i].geometry.vertices = os[i].geometry.vertices

\* The cached local box of object i is kept, or a missing one of a mesh was
\* filled in with the box of the vertices
CacheKept(os, ns, i) ==
    os[i].geometry # NoGeometry =>
        IF os[i].geometry.boundingBox # Null
        THEN ns[i].geometry.boundingBox = os[i].geometry.boundingBox
        ELSE \/ ns[i].geometry.boundingBox = Null
             \/ /\ os[i].isMesh
                /\ ns[i].geometry.boundingBox = computeBoundingBox(os[i].geometry)

\* C14: a call of calculateGroupBoundingBox changes no object's position,
\* rotation, scale, parent, children or vertices and adds or removes no object;
\* a cached local box is never replaced, a missing one may be filled in; with
\* forceUpdate = false no world matrix changes.
C14_CalculateFrame ==
    [][ret'.called =>
          /\ Len(objs') = Len(objs)
          /\ \A i \in 1..Len(objs) :
                /\ SameButWorldAndCache(objs, objs', i)
                /\ CacheKept(objs, objs', i)
                /\ ~ret'.forceUpdate => objs'[i].matrixWorld = objs[i].matrixWorld]_vars

\* An unforced call has measured a moved group whose world matrices are not
\* propagated, and has cached the local box of a mesh
C14_Witness ==
    /\ ret.called /\ ~ret.forceUpdate
    /\ ~WorldCurrent
    /\ objs[1].rotation # RotNone
    /\ \E i \in Solid :
          /\ objs[i].geometry.vertices = VerticesA
          /\ objs[i].geometry.boundingBox # Null
          /\ objs[i].matrixWorld = Identity

----------------------------------------------------------------------------
(* Zones (the Zone and ExclusionZone interfaces) *)

\* a - m and a + m on numbers that may be infinite: an infinity absorbs
minus(a, m) == IF a = Inf \/ a = -Inf THEN a ELSE a - m
plus(a, m) == IF a = Inf \/ a = -Inf THEN a ELSE a + m

\* createZoneFromBox(box, margin)
createZoneFromBoxShrunk(box, margin) ==
    [minX |-> minus(box.min[1], margin), maxX |-> minus(box.max[1], margin),
     minY |-> minus(box.min[2], margin), maxY |-> minus(box.max[2], margin),
     minZ |-> minus(box.min[3], margin), maxZ |-> minus(box.max[3], margin)]
createZoneFromBox(box, margin) ==
    [minX |-> minus(box.min[1], margin), maxX |-> plus(box.max[1], margin),
     minY |-> minus(box.min[2], margin), maxY |-> plus(box.max[2], margin),
     minZ |-> minus(box.min[3], margin), maxZ |-> plus(box.max[3], margin)]

\* createExclusionZone measuring the group with the world matrices it finds
createExclusionZoneUnforced(os, margin) ==
    LET r == calculateGroupBoundingBox(os, FALSE)
    IN [os |-> r.os, zone |-> createZoneFromBox(r.box, margin)]

\* createExclusionZone with the empty box treated as a zero-sized box at the
\* origin
createExclusionZoneAtOrigin(os, margin) ==
    LET r == calculateGroupBoundingBox(os, TRUE)
        bounds == IF isEmpty(r.box) THEN ZeroBox ELSE r.box
    IN [os |-> r.os, zone |-> createZoneFromBox(bounds, margin)]

\* createExclusionZone(group, margin): the graph after the call (the world
\* matrices refreshed, the missing local boxes cached) and the zone returned
createExclusionZone(os, margin) ==
    LET r == calculateGroupBoundingBox(os, TRUE)
        bounds == r.box
    IN [os |-> r.os,
        zone |-> [minX |-> minus(bounds.min[1], margin), maxX |-> plus(bounds.max[1], margin),
                  minY |-> minus(bounds.min[2], margin), maxY |-> plus(bounds.max[2], margin),
                  minZ |-> minus(bounds.min[3], margin), maxZ |-> plus(bounds.max[3], margin)]]

\* isOutsideExclusionZone(x, y, z, zone)
isOutsideExclusionZoneStrict(x, y, z, zn) ==
    \/ x <= zn.minX
    \/ x >= zn.maxX
    \/ y <= zn.minY
    \/ y >= zn.maxY
    \/ z <= zn.minZ
    \/ z >= zn.maxZ
isOutsideExclusionZone(x, y, z, zn) ==
    \/ x < zn.minX
    \/ x > zn.maxX
    \/ y < zn.minY
    \/ y > zn.maxY
    \/ z < zn.minZ
    \/ z > zn.maxZ

----------------------------------------------------------------------------
(* SpecZone: the zone constructors and the containment test, applied to    *)
(* boxes and groups drawn at the start                                     *)

\* The extents a box is given on an axis: a single point, and two intervals
Extents == {<<-1, -1>>, <<-1, 2>>, <<0, 1>>}

\* The boxes tried: the empty box and every box with those extents
Boxes ==
    {Box3} \cup
    {[min |-> <<ex[1], ey[1], ez[1]>>, max |-> <<ex[2], ey[2], ez[2]>>] :
        ex \in Extents, ey \in Extents, ez \in Extents}

Margins == 0..MaxMargin

\* The coordinates a tested position takes: below, on and above the bounds
\* the zones above can have
ProbeCoords == {-3, -1, 0, 2, 4}

\* graph os with a new object of the given template and pose added under p
WithChild(os, p, tmpl, pose) ==
    Append([os EXCEPT ![p].children = Append(@, Len(os) + 1)],
           [isMesh |-> tmpl.isMesh, geometry |-> tmpl.geometry,
            parent |-> p, children |-> <<>>,
            position |-> pose.position, rotation |-> pose.rotation,
            scale |-> pose.scale, matrixWorld |-> Identity])

\* The groups tried: empty, holding one mesh, and holding a mesh under a mesh
TextPose == CHOOSE pose \in Poses : TRUE
MeshTemplates == {t \in Templates : t.isMesh /\ t.geometry # NoGeometry}
Groups ==
    {<<NewGroup>>} \cup
    {WithChild(<<NewGroup>>, 1, t, TextPose) : t \in MeshTemplates} \cup
    {WithChild(WithChild(<<NewGroup>>, 1, t, TextPose), 2, u, TextPose) :
        t \in MeshTemplates, u \in MeshTemplates}

ZoneInit ==
    /\ \/ zbox \in Boxes /\ objs = <<NewGroup>>
       \/ zbox = Box3 /\ objs \in Groups
    /\ zmargin \in Margins
    /\ zone = Null
    /\ probe = Null
    /\ ret = NoReturn
    /\ dn = NoCall
    /\ app = NoApp
    /\ date = NoDate

\* zone = createZoneFromBox(zbox, zmargin)
ZoneFromBox ==
    /\ zone' = [by |-> "createZoneFromBox", z |-> createZoneFromBox(zbox, zmargin)]
    /\ probe' = Null
    /\ UNCHANGED <<objs, ret, zbox, zmargin, dn, app, date>>

\* zone = createExclusionZone(group, zmargin)
ExclusionZone ==
    /\ LET r == createExclusionZone(objs, zmargin)
       IN /\ objs' = r.os
          /\ zone' = [by |-> "createExclusionZone", z |-> r.zone]
    /\ probe' = Null
    /\ UNCHANGED <<ret, zbox, zmargin, dn, app, date>>

\* isOutsideExclusionZone(x, y, z, zone)
Test(x, y, z) ==
    /\ zone # Null
    /\ probe' = [x |-> x, y |-> y, z |-> z,
                 outside |-> isOutsideExclusionZone(x, y, z, zone.z)]
    /\ UNCHANGED <<objs, ret, zbox, zmargin, zone, dn, app, date>>

ZoneNext ==
    \/ ZoneFromBox
    \/ ExclusionZone
    \/ \E x \in ProbeCoords, y \in ProbeCoords, z \in ProbeCoords : Test(x, y, z)

SpecZone == ZoneInit /\ [][ZoneNext]_vars

\* The box a zone was built from: the box given to createZoneFromBox, the
\* group's bounding box for createExclusionZone
SourceBox ==
    IF zone.by = "createZoneFromBox" THEN zbox
    ELSE calculateGroupBoundingBox(objs, TRUE).box

\* C4: with margin 0 the zone has exactly the six bounds of the box; with a
\* margin m > 0 and a non-empty box every min is lower by m and every max
\* higher by m, so the zone strictly contains the box.  This holds of
\* createZoneFromBox and of the arithmetic of createExclusionZone.
C4_ZoneExpansion ==
    zone # Null =>
        LET b == SourceBox
            zn == zone.z
        IN /\ zmargin = 0 =>
                /\ <<zn.minX, zn.minY, zn.minZ>> = b.min
                /\ <<zn.maxX, zn.maxY, zn.maxZ>> = b.max
           /\ (zmargin > 0 /\ ~isEmpty(b)) =>
                /\ <<zn.minX, zn.minY, zn.minZ>>
                     = <<b.min[1] - zmargin, b.min[2] - zmargin, b.min[3] - zmargin>>
                /\ <<zn.maxX, zn.maxY, zn.maxZ>>
                     = <<b.max[1] + zmargin, b.max[2] + zmargin, b.max[3] + zmargin>>
                /\ zn.minX < b.min[1] /\ zn.minY < b.min[2] /\ zn.minZ < b.min[3]
                /\ zn.maxX > b.max[1] /\ zn.maxY > b.max[2] /\ zn.maxZ > b.max[3]

\* A zone built by createExclusionZone with a positive margin around a group
\* that holds meshes
C4_Witness ==
    /\ zone # Null
    /\ zone.by = "createExclusionZone"
    /\ zmargin > 0
    /\ Len(objs) = 3
    /\ ~isEmpty(SourceBox)
    /\ zone.z.minX < SourceBox.min[1]

\* The position last tested lies in the zone's interval on the axis
InX == zone.z.minX <= probe.x /\ probe.x <= zone.z.maxX
InY == zone.z.minY <= probe.y /\ probe.y <= zone.z.maxY
InZ == zone.z.minZ <= probe.z /\ probe.z <= zone.z.maxZ

\* C5: a position is rejected (isOutsideExclusionZone is false) exactly when
\* it lies in the zone's interval, bounds included, on all three axes at once.
C5_RejectedIffInsideOnAllAxes ==
    probe # Null => (~probe.outside <=> (InX /\ InY /\ InZ))

\* A position on a face of the zone is rejected
C5_Witness ==
    /\ probe # Null
    /\ ~probe.outside
    /\ probe.x = zone.z.maxX
    /\ probe.y > zone.z.minY /\ probe.y < zone.z.maxY

\* The zone whose every min is +Infinity and every max -Infinity
EmptyZone ==
    [minX |-> Inf, maxX |-> -Inf, minY |-> Inf, maxY |-> -Inf, minZ |-> Inf, maxZ |-> -Inf]

\* The zone was built from an empty group, or from the empty box
FromEmpty ==
    \/ zone.by = "createExclusionZone" /\ Meshes = {}
    \/ zone.by = "createZoneFromBox" /\ zbox = Box3

\* C12: for a group without meshes createExclusionZone, and createZoneFromBox
\* on the empty box, return a zone and always the same one: every min
\* +Infinity and every max -Infinity whatever the margin, and a repeated call
\* returns again what the call before returned.
C12_EmptyGroupZoneIsDeterministic ==
    /\ []((zone # Null /\ FromEmpty) => zone.z = EmptyZone)
    /\ [][(zone # Null /\ FromEmpty /\ zone'.by = zone.by) => zone'.z = zone.z]_vars

\* The zone of an empty group built with a positive margin
C12_Witness ==
    /\ zone # Null
    /\ zone.by = "createExclusionZone"
    /\ Len(objs) = 1
    /\ zmargin > 0
    /\ zone.z = EmptyZone

----------------------------------------------------------------------------
(* SpecRound: the round trip from a group through its bounding box and the *)
(* zone of that box at margin 0 to the containment test of the meshes'     *)
(* corners                                                                 *)

\* graph os with its group in the given pose
Posed(os, pose) ==
    [os EXCEPT ![1].position = pose.position, ![1].rotation = pose.rotation]

\* The groups tried: every group of Groups that holds a mesh, at rest and moved
RoundGroups == {Posed(g, pose) : g \in Groups \ {<<NewGroup>>}, pose \in GroupPoses}

RoundInit ==
    /\ objs \in RoundGroups
    /\ ret = NoReturn
    /\ OtherInit

\* zone = createZoneFromBox(box, 0) for the box last returned
RoundZone ==
    /\ ret.called
    /\ zbox' = ret.box
    /\ zmargin' = 0
    /\ zone' = [by |-> "createZoneFromBox", z |-> createZoneFromBox(ret.box, 0)]
    /\ probe' = Null
    /\ UNCHANGED <<objs, ret, dn, app, date>>

\* The world-space box of mesh i by the world matrix it stores, and its corners
WorldBox(i) ==
    [min |-> <<StoredMin(i, 1), StoredMin(i, 2), StoredMin(i, 3)>>,
     max |-> <<StoredMax(i, 1), StoredMax(i, 2), StoredMax(i, 3)>>]

\* isOutsideExclusionZone on corner c of the world-space box of mesh i, with
\* the zone of the box the last call returned
TestCorner(i, c) ==
    /\ zone # Null
    /\ ret.called
    /\ zbox = ret.box
    /\ probe' = [x |-> c[1], y |-> c[2], z |-> c[3],
                 outside |-> isOutsideExclusionZone(c[1], c[2], c[3], zone.z)]
    /\ UNCHANGED <<objs, ret, zbox, zmargin, zone, dn, app, date>>

RoundNext ==
    \/ \E f \in BOOLEAN : Calculate(f)
    \/ RoundZone
    \/ \E i \in Solid : \E c \in Corners(WorldBox(i)) : TestCorner(i, c)

SpecRound == RoundInit /\ [][RoundNext]_vars

\* C13: every corner of every mesh's world-space box is classified as inside
\* (isOutsideExclusionZone is false) by the zone built at margin 0 from the box
\* calculateGroupBoundingBox returned, corners on a face of the zone included.
C13_RoundTrip ==
    probe # Null => ~probe.outside

\* A corner on the upper x face and the lower y face of the zone, inside, for a
\* moved group of two meshes measured with refreshed matrices
C13_Witness ==
    /\ probe # Null
    /\ ~probe.outside
    /\ probe.x = zone.z.maxX /\ probe.y = zone.z.minY
    /\ zone.z.minZ < probe.z /\ probe.z < zone.z.maxZ
    /\ Cardinality(Solid) = 2
    /\ objs[1].rotation # RotNone
    /\ Measured

----------------------------------------------------------------------------
(* createDonuts.  A real quantity q of this part is stored as the integer  *)
(* q * Unit: a coordinate, a zone bound and a scale factor in units of     *)
(* 1/Unit, an angle in units of pi/Unit.                                   *)

Unit == 2 * RandDen
Pi == Unit              \* Math.PI, in units of pi/Unit
One == Unit             \* 1.0, in units of 1/Unit
Half == RandDen         \* 0.5, in units of 1/Unit

\* The values Math.random() returns here, as numerators over RandDen: the
\* least value it can return, 0, and the greatest, 1 - 1/RandDen
RandNum == {0, RandDen - 1}

\* Math.random(), in units of 1/Unit
random(r) == 2 * r

maxAttempts == 10
DefaultSpaceSize == 10

\* (Math.random() - 0.5) * spaceSize
drawPositionUncentred(r, spaceSize) == random(r) * spaceSize
drawPosition(r, spaceSize) == (random(r) - Half) * spaceSize

\* Math.random() * Math.PI
drawRotationFullTurn(r) == random(r) * 2
drawRotation(r) == random(r)

\* Math.random(), the scale factor
drawScale(r) == random(r)

\* the test of the for loop, i < nbDonuts, and its step, i++
loopConditionInclusive(i, nbDonuts) == i <= nbDonuts
loopCondition(i, nbDonuts) == i < nbDonuts
nextIndexSkipping(i) == i + 2
nextIndex(i) == i + 1

\* the test of the while loop
retryConditionAlways(x, y, z, zn, attempts) ==
    attempts < maxAttempts
retryConditionUnbounded(x, y, z, zn, attempts) ==
    ~isOutsideExclusionZone(x, y, z, zn)
retryConditionInclusive(x, y, z, zn, attempts) ==
    ~isOutsideExclusionZone(x, y, z, zn) /\ attempts <= maxAttempts
retryCondition(x, y, z, zn, attempts) ==
    ~isOutsideExclusionZone(x, y, z, zn) /\ attempts < maxAttempts

\* What the scene holds before the call: the camera and the text group
InitialScene == <<[kind |-> "camera"], [kind |-> "group"]>>

\* The zones tried, for a sampling cube of the given size: the cube itself,
\* the part of it with x >= 0 and y >= 0, and the zone of an empty group
FullZone(spaceSize) ==
    [minX |-> -Half * spaceSize, maxX |-> Half * spaceSize,
     minY |-> -Half * spaceSize, maxY |-> Half * spaceSize,
     minZ |-> -Half * spaceSize, maxZ |-> Half * spaceSize]
PartZone(spaceSize) ==
    [minX |-> 0, maxX |-> Half * spaceSize,
     minY |-> 0, maxY |-> Half * spaceSize,
     minZ |-> -Half * spaceSize, maxZ |-> Half * spaceSize]
EmptyGroupZone == createZoneFromBox(Box3, 3)

\* The calls tried: the zone and the size of the sampling cube
Calls ==
    { [zone |-> FullZone(DefaultSpaceSize), spaceSize |-> DefaultSpaceSize],
      [zone |-> EmptyGroupZone, spaceSize |-> DefaultSpaceSize],
      [zone |-> PartZone(4), spaceSize |-> 4] }

DonutsInit ==
    /\ \E n \in 0..MaxDonuts, c \in Calls :
          dn = [pc |-> "for", nbDonuts |-> n, zone |-> c.zone, spaceSize |-> c.spaceSize,
                i |-> 0, x |-> 0, y |-> 0, z |-> 0, attempts |-> 0,
                scene |-> InitialScene, randomUsed |-> FALSE]
    /\ objs = <<NewGroup>>
    /\ ret = NoReturn
    /\ zbox = Box3
    /\ zmargin = 0
    /\ zone = Null
    /\ probe = Null
    /\ app = NoApp
    /\ date = NoDate

\* The for loop's test holds: a donut is created, its position is drawn and
\* the retry counter starts at 0
ForEnter(rx, ry, rz) ==
    /\ dn.pc = "for"
    /\ loopCondition(dn.i, dn.nbDonuts)
    /\ dn' = [dn EXCEPT !.pc = "while",
                        !.x = drawPosition(rx, dn.spaceSize),
                        !.y = drawPosition(ry, dn.spaceSize),
                        !.z = drawPosition(rz, dn.spaceSize),
                        !.attempts = 0,
                        !.randomUsed = TRUE]
    /\ UNCHANGED <<boxVars, zoneVars, app, date>>

\* The for loop's test fails: createDonuts returns
ForExit ==
    /\ dn.pc = "for"
    /\ ~loopCondition(dn.i, dn.nbDonuts)
    /\ dn' = [dn EXCEPT !.pc = "done"]
    /\ UNCHANGED <<boxVars, zoneVars, app, date>>

\* The while loop's test holds: the position is drawn again
Redraw(rx, ry, rz) ==
    /\ dn.pc = "while"
    /\ retryCondition(dn.x, dn.y, dn.z, dn.zone, dn.attempts)
    /\ dn' = [dn EXCEPT !.x = drawPosition(rx, dn.spaceSize),
                        !.y = drawPosition(ry, dn.spaceSize),
                        !.z = drawPosition(rz, dn.spaceSize),
                        !.attempts = @ + 1]
    /\ UNCHANGED <<boxVars, zoneVars, app, date>>

\* The while loop's test fails: the position stands
WhileExit ==
    /\ dn.pc = "while"
    /\ ~retryCondition(dn.x, dn.y, dn.z, dn.zone, dn.attempts)
    /\ dn' = [dn EXCEPT !.pc = "place"]
    /\ UNCHANGED <<boxVars, zoneVars, app, date>>

\* The donut is positioned, its rotation and scale are drawn, it is added to
\* the scene; the iteration's variables go out of scope
Place(ra, rb, rs) ==
    /\ dn.pc = "place"
    /\ LET randomScale == drawScale(rs)
           donut == [kind |-> "donut",
                     position |-> <<dn.x, dn.y, dn.z>>,
                     rotation |-> <<drawRotation(ra), drawRotation(rb), 0>>,
                     scale |-> <<randomScale, randomScale, randomScale>>]
       IN dn' = [dn EXCEPT !.pc = "for",
                           !.scene = Append(@, donut),
                           !.i = nextIndex(@),
                           !.x = 0, !.y = 0, !.z = 0, !.attempts = 0]
    /\ UNCHANGED <<boxVars, zoneVars, app, date>>

DonutsNext ==
    \/ \E rx \in RandNum, ry \in RandNum, rz \in RandNum : ForEnter(rx, ry, rz)
    \/ ForExit
    \/ \E rx \in RandNum, ry \in RandNum, rz \in RandNum : Redraw(rx, ry, rz)
    \/ WhileExit
    \/ \E ra \in RandNum, rb \in RandNum, rs \in RandNum : Place(ra, rb, rs)

SpecDonuts == DonutsInit /\ [][DonutsNext]_vars

----------------------------------------------------------------------------
(* What the claims about createDonuts speak of *)

\* The donuts in the scene, and the objects that were there before the call
Donuts == {k \in 1..Len(dn.scene) : dn.scene[k].kind = "donut"}
Last(q) == q[Len(q)]

\* Every position of the sampling cube lies in the zone
Covers ==
    /\ dn.zone.minX <= -Half * dn.spaceSize /\ Half * dn.spaceSize <= dn.zone.maxX
    /\ dn.zone.minY <= -Half * dn.spaceSize /\ Half * dn.spaceSize <= dn.zone.maxY
    /\ dn.zone.minZ <= -Half * dn.spaceSize /\ Half * dn.spaceSize <= dn.zone.maxZ

\* C6: when the zone covers the whole sampling cube, so that every draw is
\* rejected, the while loop is left only with the retry counter at 10, and the
\* donut is then placed, once, at the position drawn last; at the end there is
\* one donut per requested donut.
C6_AcceptOnExhaustion ==
    /\ [](  (Covers /\ dn.pc = "done") => Cardinality(Donuts) = dn.nbDonuts)
    /\ [][ (Covers /\ dn.pc = "place") =>
              /\ dn.attempts = maxAttempts
              /\ ~isOutsideExclusionZone(dn.x, dn.y, dn.z, dn.zone)
              /\ dn'.pc = "for"
              /\ dn'.i = dn.i + 1
              /\ Len(dn'.scene) = Len(dn.scene) + 1
              /\ Last(dn'.scene).kind = "donut"
              /\ Last(dn'.scene).position = <<dn.x, dn.y, dn.z>> ]_vars

\* Both donuts of a call placed by exhaustion inside a zone that covers the cube
C6_Witness ==
    /\ Covers
    /\ dn.pc = "done"
    /\ dn.nbDonuts = 2
    /\ \A k \in Donuts :
          ~isOutsideExclusionZone(dn.scene[k].position[1], dn.scene[k].position[2],
                                  dn.scene[k].position[3], dn.zone)

\* C7: the call adds one donut per loop iteration, nbDonuts in all, whatever
\* the zone and however many redraws a donut needed, and leaves the objects
\* already in the scene as they were.  (Nothing relates two donuts: the witness
\* is a scene with two donuts at one position.)
C7_ExactlyNDonutsAdded ==
    dn.pc # "none" =>
        /\ SubSeq(dn.scene, 1, Len(InitialScene)) = InitialScene
        /\ Donuts = (Len(InitialScene) + 1)..Len(dn.scene)
        /\ Cardinality(Donuts) = dn.i
        /\ dn.i <= dn.nbDonuts
        /\ dn.pc = "done" => Cardinality(Donuts) = dn.nbDonuts

\* Two donuts, the second placed after redraws, at the same position
C7_Witness ==
    /\ dn.pc = "done"
    /\ dn.nbDonuts = 2
    /\ ~Covers
    /\ \E j, k \in Donuts : j # k /\ dn.scene[j].position = dn.scene[k].position

InCube(c) == -Half * dn.spaceSize <= c /\ c <= Half * dn.spaceSize

\* C9: every position a donut is given, and every position drawn on the way,
\* has its three coordinates in [-spaceSize/2, spaceSize/2].
C9_PositionInCube ==
    dn.pc # "none" =>
        /\ \A k \in Donuts : \A a \in Axes : InCube(dn.scene[k].position[a])
        /\ dn.pc \in {"while", "place"} => InCube(dn.x) /\ InCube(dn.y) /\ InCube(dn.z)

\* A donut placed after a redraw at a position with coordinates at both ends
\* of what is drawn, beside a donut at another position
C9_Witness ==
    /\ dn.pc = "place"
    /\ dn.attempts > 0 /\ dn.attempts < maxAttempts
    /\ dn.x > 0 /\ dn.y = -Half * dn.spaceSize
    /\ \E k \in Donuts : dn.scene[k].position # <<dn.x, dn.y, dn.z>>

\* C10: every donut has rotation.x and rotation.y in [0, pi) and one scale
\* factor in [0, 1] on all three axes.
C10_RotationAndScaleRanges ==
    dn.pc # "none" =>
        \A k \in Donuts :
            LET d == dn.scene[k]
            IN /\ 0 <= d.rotation[1] /\ d.rotation[1] < Pi
               /\ 0 <= d.rotation[2] /\ d.rotation[2] < Pi
               /\ d.scale[1] = d.scale[2] /\ d.scale[2] = d.scale[3]
               /\ 0 <= d.scale[1] /\ d.scale[1] <= One

\* Two donuts at one position, one with the greatest rotation drawn and scale
\* 0, the other with rotation 0 and a positive scale
C10_Witness ==
    \E j, k \in Donuts :
        /\ dn.scene[j].position = dn.scene[k].position
        /\ dn.scene[j].rotation[1] = random(RandDen - 1) /\ dn.scene[j].scale[1] = 0
        /\ dn.scene[k].rotation[1] = 0 /\ dn.scene[k].scale[1] > 0

\* C20: a donut gets the first of its draws that lies outside the zone.  The
\* position held in the while loop is the latest draw and attempts + 1 is
\* the number of draws made for the donut, 11 at most; a further draw is made
\* only when the latest one is inside the zone, so every earlier draw was
\* inside; the loop is left with the latest draw untouched, and that draw is
\* outside the zone unless it is the 11th; the donut is placed at it.
C20_FirstOutsideDrawKept ==
    /\ [](dn.pc \in {"while", "place"} => dn.attempts \in 0..maxAttempts)
    /\ [][ (dn.pc = "for" /\ dn'.pc = "while") => dn'.attempts = 0 ]_vars
    /\ [][ (dn.pc = "while" /\ dn'.pc = "while") =>
              /\ ~isOutsideExclusionZone(dn.x, dn.y, dn.z, dn.zone)
              /\ dn'.attempts = dn.attempts + 1 ]_vars
    /\ [][ (dn.pc = "while" /\ dn'.pc # "while") =>
              /\ dn'.pc = "place"
              /\ <<dn'.x, dn'.y, dn'.z, dn'.attempts>> = <<dn.x, dn.y, dn.z, dn.attempts>>
              /\ \/ isOutsideExclusionZone(dn.x, dn.y, dn.z, dn.zone)
                 \/ dn.attempts = maxAttempts ]_vars
    /\ [][ dn.pc = "place" =>
              /\ Len(dn'.scene) = Len(dn.scene) + 1
              /\ Last(dn'.scene).position = <<dn.x, dn.y, dn.z>>
              /\ \/ isOutsideExclusionZone(dn.x, dn.y, dn.z, dn.zone)
                 \/ dn.attempts = maxAttempts ]_vars

\* A donut is about to be placed outside the zone at its fourth draw, after
\* a donut that was placed inside the zone
C20_Witness ==
    /\ dn.pc = "place"
    /\ dn.attempts = 3
    /\ isOutsideExclusionZone(dn.x, dn.y, dn.z, dn.zone)
    /\ \E k \in Donuts :
          ~isOutsideExclusionZone(dn.scene[k].position[1], dn.scene[k].position[2],
                                  dn.scene[k].position[3], dn.zone)

----------------------------------------------------------------------------
(* SpecBudget: createDonuts with the redraws of the call counted.  The     *)
(* count is a history variable, the field redraws of the activation        *)
(* record; the steps are those of SpecDonuts, the redraw counting itself.  *)

\* The calls tried: the counts 0, 1, 2 with each zone of Calls
BudgetCounts == {0, 1, 2}

BudgetInit ==
    /\ \E n \in BudgetCounts, c \in Calls :
          dn = [pc |-> "for", nbDonuts |-> n, zone |-> c.zone, spaceSize |-> c.spaceSize,
                i |-> 0, x |-> 0, y |-> 0, z |-> 0, attempts |-> 0,
                scene |-> InitialScene, randomUsed |-> FALSE, redraws |-> 0]
    /\ objs = <<NewGroup>>
    /\ ret = NoReturn
    /\ zbox = Box3
    /\ zmargin = 0
    /\ zone = Null
    /\ probe = Null
    /\ app = NoApp
    /\ date = NoDate

\* The while loop's test holds: the position is drawn again (and counted)
CountedRedraw(rx, ry, rz) ==
    /\ dn.pc = "while"
    /\ retryCondition(dn.x, dn.y, dn.z, dn.zone, dn.attempts)
    /\ dn' = [dn EXCEPT !.x = drawPosition(rx, dn.spaceSize),
                        !.y = drawPosition(ry, dn.spaceSize),
                        !.z = drawPosition(rz, dn.spaceSize),
                        !.attempts = @ + 1,
                        !.redraws = @ + 1]
    /\ UNCHANGED <<boxVars, zoneVars, app, date>>

BudgetNext ==
    \/ \E rx \in RandNum, ry \in RandNum, rz \in RandNum : ForEnter(rx, ry, rz)
    \/ ForExit
    \/ \E rx \in RandNum, ry \in RandNum, rz \in RandNum : CountedRedraw(rx, ry, rz)
    \/ WhileExit
    \/ \E ra \in RandNum, rb \in RandNum, rs \in RandNum : Place(ra, rb, rs)

SpecBudget == BudgetInit /\ [][BudgetNext]_vars

\* The steps one donut takes at most: entering the loop body, maxAttempts
\* redraws, leaving the while loop, placing the donut
StepsPerDonut == maxAttempts + 3

\* An upper bound on the steps createDonuts still takes
StepsLeft ==
    IF dn.pc = "done" THEN 0
    ELSE IF dn.i >= dn.nbDonuts THEN 1
    ELSE (dn.nbDonuts - dn.i) * StepsPerDonut + 1
         - (IF dn.pc = "while" THEN 1 + dn.attempts
            ELSE IF dn.pc = "place" THEN maxAttempts + 2
            ELSE 0)

\* C17: createDonuts terminates whatever Math.random() returns: every step
\* lowers a bound on the steps left, which is never negative; a donut is
\* redrawn at most 10 times, and the redraws of the whole call number at most
\* 10 per donut started, nbDonuts x 10 at the end.
C17_BoundedRedraws ==
    /\ [](/\ StepsLeft >= 0
          /\ dn.attempts <= maxAttempts
          /\ dn.redraws <= maxAttempts * dn.i + dn.attempts
          /\ dn.pc = "done" => dn.redraws <= dn.nbDonuts * maxAttempts)
    /\ [][StepsLeft' < StepsLeft]_vars

\* A call for two donuts has ended with each of them redrawn ten times
C17_Witness ==
    /\ dn.pc = "done"
    /\ dn.nbDonuts = 2
    /\ dn.redraws = 2 * maxAttempts

----------------------------------------------------------------------------
(* SpecArgs: the entry points called with arguments outside their domain   *)
(* (a negative count, a zero or negative spaceSize, a negative margin)     *)
(* beside valid ones.  A call that returns has pc = "done" (createDonuts)  *)
(* or leaves a zone (the constructors); the functions hold no throw        *)
(* statement, so no other outcome exists.                                  *)

\* The createDonuts calls tried: counts -1, 0, 1 and sizes -4, 0, 10
ArgCounts == {-1, 0, 1}
ArgSizes == {-4, 0, DefaultSpaceSize}
ArgCalls ==
    {[nbDonuts |-> n, zone |-> FullZone(DefaultSpaceSize), spaceSize |-> s] :
        n \in ArgCounts, s \in ArgSizes}

\* The margins tried: negative ones too
ArgMargins == (-MaxMargin)..MaxMargin

ArgsInit ==
    /\ app = NoApp
    /\ date = NoDate
    /\ ret = NoReturn
    /\ zone = Null
    /\ probe = Null
    /\ \/ /\ \E c \in ArgCalls :
                dn = [pc |-> "for", nbDonuts |-> c.nbDonuts, zone |-> c.zone,
                      spaceSize |-> c.spaceSize,
                      i |-> 0, x |-> 0, y |-> 0, z |-> 0, attempts |-> 0,
                      scene |-> InitialScene, randomUsed |-> FALSE]
          /\ zbox = Box3
          /\ objs = <<NewGroup>>
          /\ zmargin = 0
       \/ /\ dn = NoCall
          /\ \/ zbox \in Boxes /\ objs = <<NewGroup>>
             \/ zbox = Box3 /\ objs \in Groups
          /\ zmargin \in ArgMargins

ArgsNext ==
    \/ DonutsNext
    \/ ZoneFromBox
    \/ ExclusionZone

SpecArgs == ArgsInit /\ [][ArgsNext]_vars

\* C11: invalid arguments fail fast and produce no output: a createDonuts call
\* with a negative count or a zero or negative spaceSize never returns normally
\* and adds nothing to the scene, and no zone is returned for a negative margin.
C11_InvalidArgumentsFailFast ==
    /\ (dn.pc # "none" /\ (dn.nbDonuts < 0 \/ dn.spaceSize <= 0)) =>
          /\ dn.pc # "done"
          /\ dn.scene = InitialScene
    /\ zmargin < 0 => zone = Null

----------------------------------------------------------------------------
(* SpecAgree: boxToZone, createZoneFromBox and createExclusionZone called  *)
(* on one box or group, with the margin given or left out.  Lengths are in *)
(* tenths, so that the default margin 0.3 is the number 3; the arguments   *)
(* after the first are held as a list, empty when the margin is omitted.   *)

\* boxToZone(box)
boxToZone(box) ==
    [minX |-> box.min[1], maxX |-> box.max[1],
     minY |-> box.min[2], maxY |-> box.max[2],
     minZ |-> box.min[3], maxZ |-> box.max[3]]

\* The default values of the parameter margin: 0 in createZoneFromBox, 0.3 in
\* createExclusionZone
DefaultBoxMargin == 0
DefaultZoneMargin == 3

\* A parameter with a default value takes it when the argument is omitted
withDefault(args, default) == IF Len(args) = 0 THEN default ELSE args[1]

AgreeInit ==
    /\ \/ zbox \in Boxes /\ objs = <<NewGroup>>
       \/ zbox = Box3 /\ objs \in Groups
    /\ zmargin \in {<<>>} \cup {<<m>> : m \in ArgMargins}
    /\ zone = Null
    /\ probe = Null
    /\ ret = NoReturn
    /\ dn = NoCall
    /\ app = NoApp
    /\ date = NoDate

\* zone = boxToZone(zbox)
CallBoxToZone ==
    /\ zone' = [by |-> "boxToZone", z |-> boxToZone(zbox)]
    /\ UNCHANGED <<objs, ret, zbox, zmargin, probe, dn, app, date>>

\* zone = createZoneFromBox(zbox) or createZoneFromBox(zbox, margin)
CallZoneFromBox ==
    /\ zone' = [by |-> "createZoneFromBox",
                z |-> createZoneFromBox(zbox, withDefault(zmargin, DefaultBoxMargin))]
    /\ UNCHANGED <<objs, ret, zbox, zmargin, probe, dn, app, date>>

\* zone = createExclusionZone(group) or createExclusionZone(group, margin)
CallExclusionZone ==
    /\ LET r == createExclusionZone(objs, withDefault(zmargin, DefaultZoneMargin))
       IN /\ objs' = r.os
          /\ zone' = [by |-> "createExclusionZone", z |-> r.zone]
    /\ UNCHANGED <<ret, zbox, zmargin, probe, dn, app, date>>

AgreeNext == CallBoxToZone \/ CallZoneFromBox \/ CallExclusionZone

SpecAgree == AgreeInit /\ [][AgreeNext]_vars

\* C25: createExclusionZone(group, margin) returns the six bounds that
\* createZoneFromBox returns for the box calculateGroupBoundingBox(group)
\* gives and the same margin, and for the margin 0.3 when it is called
\* without one; boxToZone(box) returns the bounds of createZoneFromBox(box, 0),
\* which are those of createZoneFromBox(box), the bounds of the box itself.
C25_ConstructorsAgree ==
    zone # Null =>
        /\ zone.by = "createExclusionZone" =>
              zone.z = createZoneFromBox(calculateGroupBoundingBox(objs, TRUE).box,
                                         IF zmargin = <<>> THEN 3 ELSE zmargin[1])
        /\ zone.by = "boxToZone" =>
              /\ zone.z = createZoneFromBox(zbox, 0)
              /\ <<zone.z.minX, zone.z.minY, zone.z.minZ>> = zbox.min
              /\ <<zone.z.maxX, zone.z.maxY, zone.z.maxZ>> = zbox.max
        /\ (zone.by = "createZoneFromBox" /\ zmargin = <<>>) =>
              zone.z = boxToZone(zbox)

\* createExclusionZone was called without a margin on a group that holds a
\* mesh under a mesh
C25_Witness ==
    /\ zone # Null
    /\ zone.by = "createExclusionZone"
    /\ zmargin = <<>>
    /\ Len(objs) = 3
    /\ zone.z.minX < zone.z.maxX

----------------------------------------------------------------------------
(* SpecEmptyZone: a zone is built, positions are tested against it, and it *)
(* is handed to createDonuts.  Lengths are in units of 1/Unit throughout.  *)

\* The groups without a mesh: the group alone, and the group holding a group
EmptyGroups == {<<NewGroup>>, WithChild(<<NewGroup>>, 1, [isMesh |-> FALSE, geometry |-> NoGeometry], TextPose)}

\* The box of the sampling cube of the default size
CubeBox ==
    [min |-> <<-Half * DefaultSpaceSize, -Half * DefaultSpaceSize, -Half * DefaultSpaceSize>>,
     max |-> <<Half * DefaultSpaceSize, Half * DefaultSpaceSize, Half * DefaultSpaceSize>>]

EmptyZoneInit ==
    /\ \/ zbox = Box3 /\ objs \in EmptyGroups
       \/ zbox = CubeBox /\ objs = <<NewGroup>>
    /\ zmargin \in ArgMargins
    /\ zone = Null
    /\ probe = Null
    /\ ret = NoReturn
    /\ dn = NoCall
    /\ app = NoApp
    /\ date = NoDate

\* createDonuts(n, material, scene, zone) with the zone last built
CallCreateDonuts(n) ==
    /\ dn.pc = "none"
    /\ zone # Null
    /\ dn' = [pc |-> "for", nbDonuts |-> n, zone |-> zone.z, spaceSize |-> DefaultSpaceSize,
              i |-> 0, x |-> 0, y |-> 0, z |-> 0, attempts |-> 0,
              scene |-> InitialScene, randomUsed |-> FALSE, redraws |-> 0]
    /\ probe' = Null
    /\ UNCHANGED <<objs, ret, zbox, zmargin, zone, app, date>>

\* Before the call the zone is built and tested at the origin and at
\* positions as far out as a finite number goes
EmptyZoneNext ==
    \/ dn.pc = "none" /\ ZoneFromBox
    \/ dn.pc = "none" /\ ExclusionZone
    \/ /\ dn.pc = "none"
       /\ \E x \in {1 - Inf, 0, Inf - 1}, y \in {1 - Inf, 0, Inf - 1}, z \in {1 - Inf, 0, Inf - 1} :
             Test(x, y, z)
    \/ \E n \in BudgetCounts : CallCreateDonuts(n)
    \/ BudgetNext

SpecEmptyZone == EmptyZoneInit /\ [][EmptyZoneNext]_vars

\* C21: with a zone derived from an empty group (the empty box widened by
\* any margin) every position tested is outside the zone, createDonuts never
\* redraws (the count of redraws stays 0, and 0 for each donut), the while
\* loop is left at once with the first draw untouched, and every donut is
\* placed at that first draw.
C21_EmptyZoneNoRedraws ==
    /\ []((zone # Null /\ FromEmpty) =>
            /\ probe # Null => probe.outside
            /\ dn.pc # "none" =>
                  /\ dn.zone = zone.z
                  /\ dn.redraws = 0
                  /\ dn.attempts = 0
                  /\ dn.pc \in {"while", "place"} =>
                        isOutsideExclusionZone(dn.x, dn.y, dn.z, dn.zone))
    /\ [][ (zone # Null /\ FromEmpty /\ dn.pc = "while") =>
              /\ dn'.pc = "place"
              /\ <<dn'.x, dn'.y, dn'.z>> = <<dn.x, dn.y, dn.z>> ]_vars
    /\ [][ (zone # Null /\ FromEmpty /\ dn.pc = "place") =>
              Last(dn'.scene).position = <<dn.x, dn.y, dn.z>> ]_vars

\* createDonuts has returned after placing two donuts with a zone built by
\* createExclusionZone from a group that holds only a group
C21_Witness ==
    /\ zone # Null /\ FromEmpty
    /\ zone.by = "createExclusionZone"
    /\ Len(objs) = 2
    /\ dn.pc = "done"
    /\ dn.nbDonuts = 2
    /\ Cardinality(Donuts) = 2
    /\ dn.redraws = 0

----------------------------------------------------------------------------
(* The component (App.vue with useThreeScene and useTextAnimation).  app   *)
(* holds the closure variables of one useThreeScene instance (scene,       *)
(* camera, renderer, controls, clock, animationFrameId,                    *)
(* cameraAnimationComplete), the component's textGroup, and what the       *)
(* browser holds for it: the window, the resize listener, the requested    *)
(* animation frames, the camera tween and the font load.  undefined and    *)
(* null are Null; an undefined animationFrameId is 0.  Lengths of the      *)
(* scene are in units of 1/Unit, camera coordinates in hundredths.         *)

\* The windows tried: inner size and devicePixelRatio
Windows == {[size |-> <<4, 3>>, dpr |-> 1], [size |-> <<16, 9>>, dpr |-> 3]}

\* The options App.vue passes, and the defaults of the others
cameraPosition == <<0, 0, 7000>>
lookAt == <<0, 0, 0>>
enableOrbitControls == TRUE
pixelRatioLimit == 2

\* The target of the camera tween and the positions it passes through
targetPosition == <<34, -150, 200>>
TweenPath == <<(<<17, -75, 3600>>), targetPosition>>

\* The resources a renderer holds for the meshes: the shared material, the
\* shared donut geometry, and the geometry of the text mesh that is object i
\* of the text group
Material == <<"material", 0>>
DonutGeometry == <<"geometry", 0>>
TextGeometry(i) == <<"geometry", i>>

\* The component after setup(), before it is mounted
AppSetup(canvas, window) ==
    [stage |-> "setup", canvas |-> canvas, window |-> window,
     scene |-> Null, camera |-> Null, renderer |-> Null, controls |-> Null,
     clock |-> Null, animationFrameId |-> 0, cameraAnimationComplete |-> FALSE,
     textGroup |-> 0,
     resizeListener |-> FALSE, pending |-> {}, lastFrameId |-> 0,
     tween |-> Null, fontLoad |-> Null,
     disposed |-> {}, frames |-> 0, customRuns |-> 0, controlUpdates |-> 0,
     zoneLog |-> <<>>]

\* camera.lookAt(target): the orientation is fixed by where the camera is
\* and what it looks at
lookingAt(camera, target) ==
    [camera EXCEPT !.orientation = [from |-> camera.position, to |-> target]]

\* renderer.setSize and renderer.setPixelRatio from the window
sized(window) ==
    [size |-> window.size, pixelRatio |-> Min2(window.dpr, pixelRatioLimit)]

\* initScene()
initSceneControlsEnabled(a) ==
    IF ~a.canvas THEN a
    ELSE LET camera == lookingAt([position |-> cameraPosition, aspect |-> a.window.size,
                                  orientation |-> Null], lookAt)
         IN [a EXCEPT !.scene = [children |-> <<[kind |-> "camera"]>>],
                      !.camera = camera,
                      !.renderer = sized(a.window),
                      !.controls = IF enableOrbitControls
                                   THEN [enabled |-> TRUE, enableDamping |-> TRUE]
                                   ELSE @,
                      !.clock = [running |-> TRUE],
                      !.resizeListener = TRUE]
initScene(a) ==
    IF ~a.canvas THEN a
    ELSE LET camera == lookingAt([position |-> cameraPosition, aspect |-> a.window.size,
                                  orientation |-> Null], lookAt)
         IN [a EXCEPT !.scene = [children |-> <<[kind |-> "camera"]>>],
                      !.camera = camera,
                      !.renderer = sized(a.window),
                      !.controls = IF enableOrbitControls
                                   THEN [enabled |-> FALSE, enableDamping |-> TRUE]
                                   ELSE @,
                      !.clock = [running |-> TRUE],
                      !.resizeListener = TRUE]

\* handleResize()
handleResize(a) ==
    IF a.camera = Null \/ a.renderer = Null THEN a
    ELSE [a EXCEPT !.camera.aspect = a.window.size,
                   !.renderer = sized(a.window)]

\* startCameraAnimation(): gsap.to(camera.position, ...) starts a tween
startCameraAnimation(a) ==
    IF a.camera = Null THEN a
    ELSE [a EXCEPT !.tween = [step |-> 0]]

\* animateFloatingText(group, elapsedTime): the rotation and the position the
\* elapsed time gives
animateFloatingTextScaling(os, pose) ==
    [os EXCEPT ![1].position = pose.position, ![1].rotation = pose.rotation,
               ![1].scale = <<2, 2, 2>>]
animateFloatingText(os, pose) ==
    [os EXCEPT ![1].position = pose.position, ![1].rotation = pose.rotation]

\* n/10 on the grid of 1/Unit, rounded down
Tenths(n) == (n * Unit) \div 10

\* The arguments of the font callback's calls
AppMargin == Tenths(3)
AppDonuts == 45

\* createTextMesh(text, options): a mesh whose geometry is centred, so that
\* its local box is cached and symmetric about the origin, at height y.  The
\* first line is the smaller one.
FirstLineVertices == {<<-Half, -Half, -Half>>, <<Half, Half, Half>>}
SecondLineVertices == {<<-One, -Half, -Half>>, <<One, Half, Half>>}
createTextMesh(vertices) ==
    [isMesh |-> TRUE,
     geometry |-> [vertices |-> vertices,
                   boundingBox |-> computeBoundingBox([vertices |-> vertices])]]
textPosition(y) ==
    [position |-> <<0, y, 0>>, rotation |-> RotNone, scale |-> <<1, 1, 1>>]

\* The k-th value Math.random() returns in a run of the page, as a numerator
\* over RandDen: one fixed sequence per seed, the sequence of seed 0 being
\* the middle value throughout
Seeds == {0, 1, 2, 3}
randomAt(seed, k) ==
    IF seed = 0 THEN RandDen \div 2
    ELSE ((k * (k + seed)) \div (seed + 1) + k \div 7) % RandDen

\* createDonuts(nbDonuts, material, scene, exclusionZone, spaceSize) run to
\* its end on the scene's children, the draws taken from the sequence of the
\* seed: d is the position drawn, the retry counter and the number of values
\* drawn so far
RECURSIVE whileLoop(_, _, _, _)
whileLoop(d, zn, spaceSize, seed) ==
    IF retryCondition(d.x, d.y, d.z, zn, d.attempts)
    THEN whileLoop([x |-> drawPosition(randomAt(seed, d.k), spaceSize),
                    y |-> drawPosition(randomAt(seed, d.k + 1), spaceSize),
                    z |-> drawPosition(randomAt(seed, d.k + 2), spaceSize),
                    attempts |-> d.attempts + 1, k |-> d.k + 3],
                   zn, spaceSize, seed)
    ELSE d

RECURSIVE forLoop(_, _, _, _, _, _, _)
forLoop(i, nbDonuts, children, zn, spaceSize, seed, k) ==
    IF ~loopCondition(i, nbDonuts) THEN children
    ELSE LET d == whileLoop([x |-> drawPosition(randomAt(seed, k), spaceSize),
                             y |-> drawPosition(randomAt(seed, k + 1), spaceSize),
                             z |-> drawPosition(randomAt(seed, k + 2), spaceSize),
                             attempts |-> 0, k |-> k + 3],
                            zn, spaceSize, seed)
             randomScale == drawScale(randomAt(seed, d.k + 2))
             donut == [kind |-> "donut",
                       position |-> <<d.x, d.y, d.z>>,
                       rotation |-> <<drawRotation(randomAt(seed, d.k)),
                                      drawRotation(randomAt(seed, d.k + 1)), 0>>,
                       scale |-> <<randomScale, randomScale, randomScale>>]
         IN forLoop(nextIndex(i), nbDonuts, Append(children, donut), zn, spaceSize,
                    seed, d.k + 3)

createDonuts(nbDonuts, children, zn, spaceSize, seed) ==
    forLoop(0, nbDonuts, children, zn, spaceSize, seed, 0)

\* The donuts among the children of a scene
DonutsIn(children) == {k \in 1..Len(children) : children[k].kind = "donut"}

\* The callback of fontLoader.load: the text group is built from the two
\* lines and added to the scene, the exclusion zone is computed around it,
\* the donuts are created
fontLoaded(a, seed) ==
    LET g1 == WithChild(<<NewGroup>>, 1, createTextMesh(FirstLineVertices),
                        textPosition(Tenths(2)))
        g2 == WithChild(g1, 1, createTextMesh(SecondLineVertices),
                        textPosition(-Tenths(4)))
        added == Append(a.scene.children, [kind |-> "group", os |-> g2])
        index == Len(added)
        r == createExclusionZone(g2, AppMargin)
        measured == [added EXCEPT ![index].os = r.os]
        called == [zone |-> r.zone,
                   children |-> Len(g2[1].children),
                   position |-> g2[1].position,
                   rotation |-> g2[1].rotation,
                   donuts |-> Cardinality(DonutsIn(added)),
                   frames |-> a.frames]
    IN [a EXCEPT !.fontLoad = [done |-> TRUE],
                 !.textGroup = index,
                 !.zoneLog = Append(@, called),
                 !.scene.children = createDonuts(AppDonuts, measured, r.zone,
                                                 DefaultSpaceSize, seed)]

\* loadAssets(): without a scene nothing is loaded, otherwise the font load
\* is started
loadAssets(a) ==
    IF a.scene = Null THEN a
    ELSE [a EXCEPT !.fontLoad = [done |-> FALSE]]

\* customAnimation(elapsedTime): the text group, once it exists, is given
\* the pose of the elapsed time
customAnimationRezoning(a, pose) ==
    IF a.textGroup # 0
    THEN LET os == animateFloatingText(a.scene.children[a.textGroup].os, pose)
             r == createExclusionZone(os, AppMargin)
         IN [a EXCEPT !.scene.children[a.textGroup].os = r.os,
                      !.customRuns = @ + 1,
                      !.zoneLog = Append(@, [zone |-> r.zone,
                                             children |-> Len(os[1].children),
                                             position |-> os[1].position,
                                             rotation |-> os[1].rotation,
                                             donuts |-> Cardinality(DonutsIn(a.scene.children)),
                                             frames |-> a.frames])]
    ELSE [a EXCEPT !.customRuns = @ + 1]
customAnimation(a, pose) ==
    IF a.textGroup # 0
    THEN [a EXCEPT !.scene.children[a.textGroup].os = animateFloatingText(@, pose),
                   !.customRuns = @ + 1]
    ELSE [a EXCEPT !.customRuns = @ + 1]

\* controls.update(): without input the controls keep the camera where it
\* is, looking at their target, the origin
controlsUpdate(a) ==
    [a EXCEPT !.camera = lookingAt(@, <<0, 0, 0>>),
              !.controlUpdates = @ + 1]

\* renderer.render(scene, camera): the world matrices of the scene are
\* refreshed and a frame is drawn
render(a) ==
    [a EXCEPT !.frames = @ + 1,
              !.scene.children =
                  [k \in 1..Len(@) |->
                      IF @[k].kind = "group"
                      THEN [@[k] EXCEPT !.os = updateMatrixWorld(@, 1)]
                      ELSE @[k]]]

\* animate(), the frame callback of a loop started with or without a custom
\* animation function: one frame, and the request of the next
animate(a, custom, pose) ==
    LET a1 == [a EXCEPT !.camera = lookingAt(@, lookAt)]
        a2 == IF a1.controls # Null /\ a1.controls.enabled THEN controlsUpdate(a1) ELSE a1
        a3 == IF custom THEN customAnimation(a2, pose) ELSE a2
        a4 == render(a3)
        id == a4.lastFrameId + 1
    IN [a4 EXCEPT !.lastFrameId = id,
                  !.pending = @ \cup {[id |-> id, custom |-> custom]},
                  !.animationFrameId = id]

\* startAnimationLoop(customAnimationFn)
startAnimationLoop(a, custom, pose) ==
    IF a.scene = Null \/ a.camera = Null \/ a.renderer = Null \/ a.clock = Null THEN a
    ELSE animate(a, custom, pose)

\* The geometry and the materials of the meshes scene.traverse visits
MeshResources(children) ==
    UNION {IF children[k].kind = "donut" THEN {DonutGeometry, Material}
           ELSE IF children[k].kind = "group"
           THEN UNION {IF children[k].os[i].isMesh THEN {TextGeometry(i), Material} ELSE {} :
                          i \in 1..Len(children[k].os)}
           ELSE {} : k \in 1..Len(children)}

\* cleanup()
cleanupKeepingFrame(a) ==
    LET a1 == [a EXCEPT !.resizeListener = FALSE]
    IN IF a1.scene # Null
       THEN [a1 EXCEPT !.disposed = @ \cup MeshResources(a1.scene.children)]
       ELSE a1
cleanup(a) ==
    LET a1 == [a EXCEPT !.resizeListener = FALSE]
        a2 == IF a1.animationFrameId # 0
              THEN [a1 EXCEPT !.pending = {f \in @ : f.id # a1.animationFrameId}]
              ELSE a1
    IN IF a2.scene # Null
       THEN [a2 EXCEPT !.disposed = @ \cup MeshResources(a2.scene.children)]
       ELSE a2

----------------------------------------------------------------------------
(* SpecApp: the component from setup to unmount, with the callbacks the    *)
(* browser runs for it in any order                                        *)

AppInit ==
    /\ app \in {AppSetup(canvas, window) : canvas \in BOOLEAN, window \in Windows}
    /\ objs = <<NewGroup>>
    /\ ret = NoReturn
    /\ zbox = Box3
    /\ zmargin = 0
    /\ zone = Null
    /\ probe = Null
    /\ dn = NoCall
    /\ date = NoDate

\* onMounted: without a canvas nothing is set up; otherwise initScene,
\* loadAssets, startCameraAnimation, startAnimationLoop(customAnimation),
\* which draws the first frame at once
Mount(pose) ==
    /\ app.stage = "setup"
    /\ app' = IF ~app.canvas THEN [app EXCEPT !.stage = "mounted"]
              ELSE startAnimationLoop(
                       startCameraAnimation(
                           loadAssets(initScene([app EXCEPT !.stage = "mounted"]))),
                       TRUE, pose)
    /\ UNCHANGED <<boxVars, zoneVars, dn, date>>

\* The font has loaded: the callback given to fontLoader.load runs
FontLoaded(seed) ==
    /\ app.stage # "none"
    /\ app.fontLoad # Null
    /\ ~app.fontLoad.done
    /\ app' = fontLoaded(app, seed)
    /\ UNCHANGED <<boxVars, zoneVars, dn, date>>

\* The browser runs a requested animation frame
Frame(f, pose) ==
    /\ app.stage # "none"
    /\ f \in app.pending
    /\ app.frames < MaxFrames
    /\ app' = animate([app EXCEPT !.pending = @ \ {f}], f.custom, pose)
    /\ UNCHANGED <<boxVars, zoneVars, dn, date>>

\* The camera tween moves camera.position a step along its path
TweenTick ==
    /\ app.stage # "none"
    /\ app.tween # Null
    /\ app.tween.step < Len(TweenPath)
    /\ app' = [app EXCEPT !.tween.step = @ + 1,
                          !.camera.position = TweenPath[app.tween.step + 1]]
    /\ UNCHANGED <<boxVars, zoneVars, dn, date>>

\* The camera tween has reached its target: onComplete runs
TweenComplete ==
    /\ app.stage # "none"
    /\ app.tween # Null
    /\ app.tween.step = Len(TweenPath)
    /\ app' = [app EXCEPT !.tween = Null,
                          !.cameraAnimationComplete = TRUE,
                          !.controls = IF @ # Null THEN [@ EXCEPT !.enabled = TRUE] ELSE @]
    /\ UNCHANGED <<boxVars, zoneVars, dn, date>>

\* The window is resized: the resize listeners run
Resize(window) ==
    /\ app.stage # "none"
    /\ window # app.window
    /\ app' = IF app.resizeListener
              THEN handleResize([app EXCEPT !.window = window])
              ELSE [app EXCEPT !.window = window]
    /\ UNCHANGED <<boxVars, zoneVars, dn, date>>

\* onBeforeUnmount: cleanup()
Unmount ==
    /\ app.stage = "mounted"
    /\ app' = cleanup([app EXCEPT !.stage = "unmounted"])
    /\ UNCHANGED <<boxVars, zoneVars, dn, date>>

AppNext ==
    \/ \E pose \in GroupPoses : Mount(pose)
    \/ \E seed \in Seeds : FontLoaded(seed)
    \/ \E f \in app.pending, pose \in GroupPoses : Frame(f, pose)
    \/ TweenTick
    \/ TweenComplete
    \/ \E window \in Windows : Resize(window)
    \/ Unmount

SpecApp == AppInit /\ [][AppNext]_vars

\* The font callback has run
Loaded == app.fontLoad # Null /\ app.fontLoad.done

\* The text group as the scene holds it
TextGroup == app.scene.children[app.textGroup].os

\* The zone around the two text lines at rest: the wider second line bounds
\* x, the lines bound y from below and above, and the margin is added
RestZone ==
    [minX |-> -One - AppMargin, maxX |-> One + AppMargin,
     minY |-> -Tenths(4) - Half - AppMargin, maxY |-> Tenths(2) + Half + AppMargin,
     minZ |-> -Half - AppMargin, maxZ |-> Half + AppMargin]

\* C15: the exclusion zone is computed once per font load and by nothing
\* else, whatever frames, tween steps and resizes come before or after: when
\* it is computed the text group holds both text meshes and is at its rest
\* pose and the scene holds no donut, and the zone is the one around the two
\* lines at rest.
C15_ZoneComputedOnce ==
    app.stage # "none" =>
        /\ Len(app.zoneLog) = (IF Loaded THEN 1 ELSE 0)
        /\ \A k \in 1..Len(app.zoneLog) :
              /\ app.zoneLog[k].children = 2
              /\ app.zoneLog[k].position = <<0, 0, 0>>
              /\ app.zoneLog[k].rotation = RotNone
              /\ app.zoneLog[k].donuts = 0
              /\ app.zoneLog[k].zone = RestZone
        /\ (app.scene # Null /\ DonutsIn(app.scene.children) # {}) => Len(app.zoneLog) = 1

\* The font loaded between two frames, and a frame after it has moved the group
C15_Witness ==
    /\ app.stage # "none"
    /\ Loaded
    /\ app.zoneLog[1].frames = 2
    /\ app.frames = 3
    /\ TextGroup[1].rotation # RotNone
    /\ Cardinality(DonutsIn(app.scene.children)) = AppDonuts

\* The children of the scene that are not the text group are the same, and
\* so is the place of the text group
SameDonuts(a, b) ==
    /\ Len(b.scene.children) = Len(a.scene.children)
    /\ \A k \in 1..Len(a.scene.children) :
          IF a.scene.children[k].kind = "group"
          THEN b.scene.children[k].kind = "group"
          ELSE b.scene.children[k] = a.scene.children[k]

\* The text group after a step
TextGroupAfter == app'.scene.children[app.textGroup].os

\* A frame step of the mounted or unmounted component
FrameStep == app.stage = app'.stage /\ app'.frames = app.frames + 1

C18_CleanupStopsEverything ==
    /\ [](app.stage = "unmounted" => (app.pending = {} /\ ~app.resizeListener))
    /\ [][app.stage = "unmounted" =>
            /\ app'.frames = app.frames
            /\ app'.customRuns = app.customRuns
            /\ app'.window # app.window =>
                  (app'.camera = app.camera /\ app'.renderer = app.renderer)]_vars
    /\ [][(app.stage = "mounted" /\ app'.stage = "unmounted" /\ app.scene # Null) =>
            MeshResources(app.scene.children) \subseteq app'.disposed]_vars

\* A component unmounted after several frames, with text and donuts in its
\* scene, whose window was resized afterwards
C18_Witness ==
    /\ app.stage = "unmounted"
    /\ app.frames >= 2
    /\ app.animationFrameId = app.frames
    /\ app.camera # Null
    /\ app.camera.aspect # app.window.size
    /\ {DonutGeometry, TextGeometry(2), TextGeometry(3), Material} \subseteq app.disposed

\* C22: the orbit controls are enabled only once the camera tween has
\* completed, and a frame calls controls.update() only with controls that are
\* enabled: before the completion every frame leaves the controls alone.
C22_ControlsWaitForCamera ==
    /\ []((app.stage # "none" /\ app.controls # Null /\ app.controls.enabled) =>
            app.cameraAnimationComplete)
    /\ [][(app.stage # "none" /\ app'.controlUpdates # app.controlUpdates) =>
            /\ app'.frames = app.frames + 1
            /\ app'.controlUpdates = app.controlUpdates + 1
            /\ app.controls # Null
            /\ app.controls.enabled
            /\ app.cameraAnimationComplete]_vars
    /\ [][(app.stage # "none" /\ app'.frames # app.frames /\ ~app.cameraAnimationComplete) =>
            app'.controlUpdates = app.controlUpdates]_vars

\* Two frames were drawn while the camera flew in, and one, with an update
\* of the controls, after the tween completed
C22_Witness ==
    /\ app.stage # "none"
    /\ app.controls # Null
    /\ app.controls.enabled
    /\ app.cameraAnimationComplete
    /\ app.frames = 3
    /\ app.controlUpdates = 1

\* C23: once cleanup has run no callback that arrives late changes the scene
\* or the controls: the font callback adds no text mesh and no donut, so the
\* scene holds no mesh whose geometry and material are not disposed, and the
\* tween's onComplete does not enable the controls.
C23_NoLateCallbacks ==
    /\ [][app.stage = "unmounted" =>
            /\ app'.scene = app.scene
            /\ app'.controls = app.controls]_vars
    /\ []((app.stage = "unmounted" /\ app.scene # Null) =>
            MeshResources(app.scene.children) \subseteq app.disposed)

----------------------------------------------------------------------------
(* SpecCalls: one useThreeScene instance whose initScene,                  *)
(* startAnimationLoop and cleanup are called in any order and any number   *)
(* of times, the browser running the requested frames in between.  stage   *)
(* tells whether the last call was cleanup.                                *)

CallsInit ==
    /\ app \in {AppSetup(canvas, window) : canvas \in BOOLEAN, window \in Windows}
    /\ objs = <<NewGroup>>
    /\ ret = NoReturn
    /\ zbox = Box3
    /\ zmargin = 0
    /\ zone = Null
    /\ probe = Null
    /\ dn = NoCall
    /\ date = NoDate

CallInitScene ==
    /\ app.stage # "none"
    /\ app' = initScene([app EXCEPT !.stage = "called"])
    /\ UNCHANGED <<boxVars, zoneVars, dn, date>>

CallStartAnimationLoop(custom, pose) ==
    /\ app.stage # "none"
    /\ app.frames < MaxFrames
    /\ app' = startAnimationLoop([app EXCEPT !.stage = "called"], custom, pose)
    /\ UNCHANGED <<boxVars, zoneVars, dn, date>>

CallCleanup ==
    /\ app.stage # "none"
    /\ app' = cleanup([app EXCEPT !.stage = "cleaned"])
    /\ UNCHANGED <<boxVars, zoneVars, dn, date>>

CallsNext ==
    \/ CallInitScene
    \/ \E custom \in BOOLEAN, pose \in GroupPoses : CallStartAnimationLoop(custom, pose)
    \/ CallCleanup
    \/ \E f \in app.pending, pose \in GroupPoses : Frame(f, pose)

SpecCalls == CallsInit /\ [][CallsNext]_vars

\* C24: whatever the order of the calls, at most one animation frame is
\* requested at any time and animationFrameId is its id; after cleanup no
\* frame is requested and none is drawn until the next call; and as long as
\* initScene has not set up the scene, startAnimationLoop draws and requests
\* nothing.
C24_OnePendingFrame ==
    /\ [](app.stage # "none" =>
            /\ Cardinality(app.pending) <= 1
            /\ \A f \in app.pending : f.id = app.animationFrameId)
    /\ [](app.stage = "cleaned" => app.pending = {})
    /\ [][(app.stage = "cleaned" /\ app'.stage = "cleaned") => app'.frames = app.frames]_vars
    /\ []((app.stage # "none" /\ app.scene = Null) => (app.pending = {} /\ app.frames = 0))

----------------------------------------------------------------------------
(* SpecDate: getCurrentDateInJapanese read against a clock.  A Date is     *)
(* held by its local year and the number of days since January 1st;        *)
(* strings are sequences of UTF-16 code units.                             *)

\* The local years the clock runs through: a common year and a leap year
Years == {2023, 2024}

isLeapYear(y) == (y % 4 = 0 /\ y % 100 # 0) \/ y % 400 = 0

\* The days of month m (0 = January) of year y
DaysInMonth(y, m) ==
    IF m = 1 THEN (IF isLeapYear(y) THEN 29 ELSE 28)
    ELSE IF m \in {3, 5, 8, 10} THEN 30
    ELSE 31

DaysInYear(y) == IF isLeapYear(y) THEN 366 ELSE 365

\* The month that holds day yday of year y, looked for from month m on
RECURSIVE MonthFromDay(_, _, _)
MonthFromDay(y, yday, m) ==
    IF yday < DaysInMonth(y, m) THEN [month |-> m, rest |-> yday]
    ELSE MonthFromDay(y, yday - DaysInMonth(y, m), m + 1)

\* Date.prototype.getMonth: 0 for January
getMonth(d) == MonthFromDay(d.year, d.yday, 0).month

\* Date.prototype.getDate: the day of the month, from 1
getDate(d) == MonthFromDay(d.year, d.yday, 0).rest + 1

\* The code units of the digits 0 to 9
Digits == <<48, 49, 50, 51, 52, 53, 54, 55, 56, 57>>

\* Number to string inside a template literal, for a natural number: its
\* decimal digits, the leading one not 0 unless the number is 0
RECURSIVE ToString(_)
ToString(n) ==
    IF n < 10 THEN <<Digits[n + 1]>>
    ELSE ToString(n \div 10) \o <<Digits[(n % 10) + 1]>>

\* The month taken from getMonth() as it is
getCurrentDateInJapaneseZeroBased(now) ==
    LET today == now
        month == getMonth(today)
        day == getDate(today)
    IN  [firstLine |-> <<20170, 26085, 12399>>,
         secondLine |-> ToString(month) \o <<26376>> \o ToString(day) \o <<26085>>]
\* getCurrentDateInJapanese, new Date() giving now.  firstLine is U+4ECA
\* U+65E5 U+306F; the signs after the month and the day are U+6708 and U+65E5
getCurrentDateInJapanese(now) ==
    LET today == now
        month == getMonth(today) + 1
        day == getDate(today)
    IN  [firstLine |-> <<20170, 26085, 12399>>,
         secondLine |-> ToString(month) \o <<26376>> \o ToString(day) \o <<26085>>]

DateInit ==
    /\ \E y \in Years, n \in 0..365 :
          /\ n < DaysInYear(y)
          /\ date = [called |-> FALSE, now |-> [year |-> y, yday |-> n]]
    /\ objs = <<NewGroup>>
    /\ ret = NoReturn
    /\ zbox = Box3
    /\ zmargin = 0
    /\ zone = Null
    /\ probe = Null
    /\ dn = NoCall
    /\ app = NoApp

\* A call of getCurrentDateInJapanese; today is the Date it read
GetCurrentDate ==
    /\ date' = [called |-> TRUE, now |-> date.now, today |-> date.now,
                out |-> getCurrentDateInJapanese(date.now)]
    /\ UNCHANGED <<boxVars, zoneVars, dn, app>>

\* Midnight passes
NextDay ==
    /\ \/ date.now.yday + 1 < DaysInYear(date.now.year)
       \/ date.now.year + 1 \in Years
    /\ date' = [date EXCEPT !.now =
                    IF date.now.yday + 1 < DaysInYear(date.now.year)
                    THEN [year |-> date.now.year, yday |-> date.now.yday + 1]
                    ELSE [year |-> date.now.year + 1, yday |-> 0]]
    /\ UNCHANGED <<boxVars, zoneVars, dn, app>>

DateNext == GetCurrentDate \/ NextDay

SpecDate == DateInit /\ [][DateNext]_vars

\* The number a sequence of digits writes in base ten
RECURSIVE DecimalValue(_)
DecimalValue(s) ==
    IF Len(s) = 0 THEN 0
    ELSE 10 * DecimalValue(SubSeq(s, 1, Len(s) - 1)) + (s[Len(s)] - 48)

\* s writes a positive number in base ten without leading zero
IsUnpadded(s) ==
    /\ Len(s) >= 1
    /\ \A k \in 1..Len(s) : s[k] \in 48..57
    /\ s[1] # 48

\* The days of year y before its month m, months counted from 1
MonthStart(y, m) ==
    LET RECURSIVE Before(_)
        Before(k) == IF k = 0 THEN 0 ELSE Before(k - 1) + DaysInMonth(y, k - 1)
    IN  Before(m - 1)

\* C19: getCurrentDateInJapanese returns exactly firstLine and secondLine;
\* firstLine is the constant greeting and secondLine is the month, the month
\* sign, the day and the day sign, where the month is the calendar month of
\* the date read, counted from 1 and within 1..12, the day is its day of the
\* month within 1..31, and neither number is padded with a zero.
C19_TwoLines ==
    date.called =>
        /\ DOMAIN date.out = {"firstLine", "secondLine"}
        /\ date.out.firstLine = <<20170, 26085, 12399>>
        /\ LET s == date.out.secondLine
               n == Len(s)
               a == CHOOSE k \in 0..n : k = n \/ s[k + 1] = 26376
               m == DecimalValue(SubSeq(s, 1, a))
               d == DecimalValue(SubSeq(s, a + 2, n - 1))
           IN  /\ a < n - 1
               /\ s[n] = 26085
               /\ IsUnpadded(SubSeq(s, 1, a))
               /\ IsUnpadded(SubSeq(s, a + 2, n - 1))
               /\ m \in 1..12
               /\ d \in 1..31
               /\ d <= DaysInMonth(date.today.year, m - 1)
               /\ MonthStart(date.today.year, m) + d - 1 = date.today.yday
               /\ m = getMonth(date.today) + 1
               /\ d = getDate(date.today)

\* The date was read on February 29th of a leap year: month 2, day 29
C19_Witness ==
    /\ date.called
    /\ isLeapYear(date.today.year)
    /\ date.today.yday = 31 + 28
    /\ date.out.secondLine = <<50, 26376, 50, 57, 26085>>

====
